---- MODULE Spec2Model ----
(***************************************************************************)
(* The song-structure performance loop of midi_interface/midi_interaction  *)
(* (SongStructureMidiInteraction): construction, the tick loop of run(),   *)
(* the three per-part caches, latency compensation and playback dispatch.  *)
(* Time is an integer number of clock units; a NoteSequence is abstracted  *)
(* to the identity of its content, the start of its note window and its    *)
(* total_time.                                                             *)
(***************************************************************************)
EXTENDS Integers, Sequences, FiniteSets, TLC

\* ---------------------------------------------------------------- bounds
MaxParts == 3       \* longest structure enumerated
MinGap == 4         \* shortest distance between two clock ticks
MaxGap == 5         \* longest distance between two clock ticks
MaxLatency == 2     \* longest duration of one generator call
MaxSkew == 1        \* longest clock advance between the two time() reads
MaxPanics == 2      \* panic signals delivered to one run

\* ---------------------------------------------------------------- universe
Instances == {1, 2}
ClassLevel == 0                  \* owner of the dicts defined in the class body
CacheTracks == <<"melody", "bass", "drums">>   \* generator index 0, 1, 2
Tracks == {"melody", "bass", "chords", "drums"}
ControlNumbers == {1, 2}         \* control numbers the surface sends values for
PartA == [name |-> "A", bars |-> 1]
PartB == [name |-> "B", bars |-> 2]
Parts == {PartA, PartB}
\* the structure of the documented scenario: A lasts 4 bars, B lasts 2
ScenarioStructure == <<[name |-> "A", bars |-> 4], [name |-> "B", bars |-> 2]>>
Structures == (UNION {[1..n -> Parts] : n \in 1..MaxParts}) \cup {ScenarioStructure}

None == <<>>
Some(v) == <<v>>
Max(a, b) == IF a >= b THEN a ELSE b
Names(structure) == {structure[k].name : k \in 1..Len(structure)}

RECURSIVE SumBars(_, _)
SumBars(structure, k) ==
    IF k = 0 THEN 0 ELSE structure[k].bars + SumBars(structure, k - 1)
\* STRUCTURE.duration(bars=True)
StructureDuration(structure) == SumBars(structure, Len(structure))

\* NoteSequence(): no notes, total_time 0
EmptySequence == [id |-> <<0, "none", "", 0>>, start |-> 0, total |-> 0]

adjust_sequence_times(sequence, delta_time) ==
    [sequence EXCEPT !.start = @ + delta_time, !.total = @ + delta_time]

\* MELODY_CACHE = {}, BASS_CACHE = {}, DRUM_CACHE = {}
EmptyDicts == [t \in {"melody", "bass", "drums"} |-> <<>>]

\* the anchor is not kept
CacheItemUnanchored(sequence, response_start_time) ==
    [sequence |-> sequence, response_start_time |-> 0]

\* CacheItem.__init__
CacheItem(sequence, response_start_time) ==
    [sequence |-> sequence, response_start_time |-> response_start_time]

VARIABLES
    now,          \* time()
    pc,           \* where each instance is in its life and in run()
    cfg,          \* constructor arguments kept on the instance
    cacheRef,     \* which dicts self.MELODY_CACHE, BASS_CACHE, DRUM_CACHE resolve to
    caches,       \* owner -> track -> part name -> None or CacheItem
    stop_signal,  \* self._stop_signal
    panic,        \* self._panic
    captor,       \* self._captor: start_time, stopped, time of the last tick yielded
    frame,        \* the local variables of run()
    player,       \* track -> what the playback track was last told
    stop_pc,      \* where the caller of stop() is
    control,      \* control number -> what midi_hub.control_value reads for it
    end_call,     \* self._end_call
    mutate,       \* self._mutate
    hist          \* what has happened in the run so far (observation only)

vars == <<now, pc, cfg, cacheRef, caches, stop_signal, panic, captor, frame, player,
          stop_pc, control, end_call, mutate, hist>>

NoFrame ==
    [captured_total_time |-> 0,   \* captured_sequence.total_time of the tick in hand
     last_tick_time |-> 0,
     tick_time |-> 0,
     tick_duration |-> 0,
     part_in_song |-> 0,
     bars_played |-> 0,
     bars_played_for_part |-> 0,
     total_bars |-> 0,
     part_duration |-> 0,
     start_of_part |-> FALSE,
     part |-> None,
     response_start_time |-> 0,
     capture_start_time |-> 0,
     response_duration |-> 0,
     sequence |-> [t \in Tracks |-> EmptySequence],  \* melody_, bass_, chord_, drum_sequence
     push_ticks |-> 0]

NoHist ==
    [ctor |-> None,        \* <<clock_signal, tick_duration>> given to the constructor
     ticks |-> 0,          \* ticks handed to the loop body
     boundaries |-> 0,     \* of which part-boundary ticks
     advances |-> <<>>,    \* number of the tick at which each part advance happened
     generated |-> <<>>,   \* <<track, part name>> of every generator call
     gens |-> <<>>,        \* <<generator invoked, _sequence_generator then>> of every call
     hits |-> <<>>,        \* tracks pulled from the cache in this tick, in order
     sets |-> 0,           \* times the panic flag went from clear to set
     signals |-> 0,        \* panic signals delivered
     flushes |-> 0,        \* panic flushes carried out
     set_at |-> 0,         \* number of the tick during which the flag was last set
     unserved |-> FALSE,   \* a panic signal was delivered and no flush has followed it
     part_read |-> 0,      \* highest index i for which STRUCTURE[i] was read in the loop
     rst0 |-> 0,           \* response_start_time entering latency compensation
     t_check |-> 0,        \* time() read by the lateness test
     t_push |-> 0,         \* time() read to compute push_ticks
     pushed |-> FALSE,     \* whether this tick pushed the response
     dispatches |-> 0]     \* part-boundary ticks that reached the playback update

NoPlayer == [started |-> FALSE, stopped |-> FALSE, sequence |-> EmptySequence,
             start_time |-> None]

Init ==
    /\ now = 1
    /\ pc = [i \in Instances |-> "unborn"]
    /\ cfg = [i \in Instances |-> None]
    /\ cacheRef = [i \in Instances |-> ClassLevel]
    /\ caches = [o \in {ClassLevel} \cup Instances |-> EmptyDicts]
    /\ stop_signal = [i \in Instances |-> FALSE]
    /\ panic = [i \in Instances |-> FALSE]
    /\ captor = [i \in Instances |-> None]
    /\ frame = [i \in Instances |-> NoFrame]
    /\ player = [i \in Instances |-> [t \in Tracks |-> NoPlayer]]
    /\ stop_pc = [i \in Instances |-> "idle"]
    /\ control = [i \in Instances |-> [n \in ControlNumbers |-> None]]
    /\ end_call = [i \in Instances |-> FALSE]
    /\ mutate = [i \in Instances |-> FALSE]
    /\ hist = [i \in Instances |-> NoHist]

\* ---------------------------------------------------------------- construction
\* only the lack of both is refused
ConfigRejectedNeither(clock_signal, tick_duration) ==
    clock_signal = None /\ tick_duration = None

\* [clock_signal, tick_duration].count(None) != 1
ConfigRejected(clock_signal, tick_duration) ==
    Cardinality({k \in {1, 2} : <<clock_signal, tick_duration>>[k] = None}) # 1

\* the constructor fills the dicts of the class body
NewCacheOwnerShared(self) == ClassLevel

\* self.MELODY_CACHE = {...}: the constructor binds fresh dicts to the instance
NewCacheOwner(self) == self

\* {part.name: None for part in self.STRUCTURE}
FreshDict(structure) == [n \in Names(structure) |-> None]

\* SongStructureMidiInteraction.__init__
Construct(self, structure, clock_signal, tick_duration, panic_signal, loop_control_number, sequence_generators, generator_select_control_number, end_call_signal, mutate_signal) ==
    /\ pc[self] = "unborn"
    /\ IF ConfigRejected(clock_signal, tick_duration)
       THEN /\ pc' = [pc EXCEPT ![self] = "config_error"]
            /\ UNCHANGED <<cfg, cacheRef, caches>>
       ELSE /\ pc' = [pc EXCEPT ![self] = "constructed"]
            /\ cfg' = [cfg EXCEPT ![self] =
                         [STRUCTURE |-> structure,
                          clock_signal |-> clock_signal,
                          tick_duration |-> tick_duration,
                          panic_signal |-> panic_signal,
                          loop_control_number |-> loop_control_number,
                          sequence_generators |-> sequence_generators,
                          generator_select_control_number |->
                             generator_select_control_number,
                          end_call_signal |-> end_call_signal,
                          mutate_signal |-> mutate_signal]]
            /\ cacheRef' = [cacheRef EXCEPT ![self] = NewCacheOwner(self)]
            /\ caches' = [caches EXCEPT ![NewCacheOwner(self)] =
                            [t \in DOMAIN EmptyDicts |-> FreshDict(structure)]]
    /\ hist' = [hist EXCEPT ![self].ctor = <<clock_signal, tick_duration>>]
    /\ UNCHANGED <<end_call, mutate>>
    /\ UNCHANGED <<now, stop_signal, panic, captor, frame, player, stop_pc, control>>

\* the dict self.<TRACK>_CACHE resolves to: the instance's own, else the class's
Cache(self, track) == caches[cacheRef[self]][track]

\* MidiHub.control_value: the last value received for the control number, if any
control_value(self, control_number) ==
    IF control_number = None THEN None ELSE control[self][control_number[1]]

\* _should_loop
_should_loop(self) ==
    /\ cfg[self].loop_control_number # None
    /\ cfg[self].loop_control_number[1] # 0
    /\ control_value(self, cfg[self].loop_control_number) = Some(127)

\* _sequence_generator: the index into the configured generators (their number
\* is what the model keeps of the list) that the property returns
_sequence_generator(self) ==
    IF cfg[self].sequence_generators = 1
    THEN 0
    ELSE LET val == control_value(self, cfg[self].generator_select_control_number)
         IN (IF val = None THEN 0 ELSE val[1]) % cfg[self].sequence_generators

\* Thread.start(): run() is scheduled on its own thread
Start(self) ==
    /\ pc[self] = "constructed"
    /\ pc' = [pc EXCEPT ![self] = "started"]
    /\ UNCHANGED <<end_call, mutate>>
    /\ UNCHANGED <<now, cfg, cacheRef, caches, stop_signal, panic, captor, frame, player,
                   stop_pc, control, hist>>

update_sequence(p, sequence, start_time) ==
    [p EXCEPT !.sequence = sequence, !.start_time = start_time]

\* run(), up to the loop: capture, callbacks, players, song structure data
RunBegin(self) ==
    /\ pc[self] = "started"
    /\ pc' = [pc EXCEPT ![self] = "await"]
    /\ captor' = [captor EXCEPT ![self] =
                    [start_time |-> now, stopped |-> FALSE, last |-> now]]
    /\ frame' = [frame EXCEPT ![self] =
                   [NoFrame EXCEPT !.last_tick_time = now,
                                   !.total_bars = StructureDuration(cfg[self].STRUCTURE),
                                   !.part_duration = cfg[self].STRUCTURE[1].bars]]
    /\ player' = [player EXCEPT ![self] =
                    [t \in Tracks |-> [NoPlayer EXCEPT !.started = TRUE]]]
    /\ UNCHANGED <<end_call, mutate>>
    /\ UNCHANGED <<now, cfg, cacheRef, caches, stop_signal, panic, stop_pc, control, hist>>

\* ---------------------------------------------------------------- the tick loop
\* distances the captor may leave between two ticks: the fixed period, or
\* whatever the external clock signal does
TickGaps(self) ==
    IF cfg[self].tick_duration # None THEN {cfg[self].tick_duration[1]} ELSE MinGap..MaxGap

Bump(self, field) == [hist EXCEPT ![self][field] = @ + 1]

\* for captured_sequence in self._captor.iterate(...): the next tick arrives;
\* stop flag and panic flag are tested (lines 256-259)
Tick(self, gap) ==
    /\ pc[self] = "await"
    /\ ~captor[self].stopped
    /\ gap \in TickGaps(self)
    /\ LET t == captor[self].last + gap IN
         /\ now' = Max(now, t)
         /\ captor' = [captor EXCEPT ![self].last = t]
         /\ frame' = [frame EXCEPT ![self].captured_total_time = t]
    /\ hist' = Bump(self, "ticks")
    /\ pc' = [pc EXCEPT ![self] =
                IF stop_signal[self] THEN "exit"
                ELSE IF panic[self] THEN "panic_flush" ELSE "book"]
    /\ UNCHANGED <<end_call, mutate>>
    /\ UNCHANGED <<cfg, cacheRef, caches, stop_signal, panic, player, stop_pc, control>>

\* the captor was stopped: iterate() yields nothing more and the for loop ends
IterateEnd(self) ==
    /\ pc[self] = "await"
    /\ captor[self].stopped
    /\ pc' = [pc EXCEPT ![self] = "exit"]
    /\ UNCHANGED <<end_call, mutate>>
    /\ UNCHANGED <<now, cfg, cacheRef, caches, stop_signal, panic, captor, frame, player,
                   stop_pc, control, hist>>

\* lines 260-264: all four tracks get an empty sequence
PanicFlush(self) ==
    /\ pc[self] = "panic_flush"
    /\ player' = [player EXCEPT ![self] =
                    [t \in Tracks |-> update_sequence(player[self][t], EmptySequence, None)]]
    /\ hist' = [hist EXCEPT ![self].flushes = @ + 1, ![self].unserved = FALSE]
    /\ pc' = [pc EXCEPT ![self] = "panic_clear"]
    /\ UNCHANGED <<end_call, mutate>>
    /\ UNCHANGED <<now, cfg, cacheRef, caches, stop_signal, panic, captor, frame, stop_pc,
                   control>>

\* line 265: self._panic.clear()
PanicClear(self) ==
    /\ pc[self] = "panic_clear"
    /\ panic' = [panic EXCEPT ![self] = FALSE]
    /\ pc' = [pc EXCEPT ![self] = "book"]
    /\ UNCHANGED <<end_call, mutate>>
    /\ UNCHANGED <<now, cfg, cacheRef, caches, stop_signal, captor, frame, player, stop_pc,
                   control, hist>>

\* line 276: the part is over
PartOver(bars_played_for_part, part_duration) == bars_played_for_part > part_duration

\* the structure starts over when the loop control says so
NextPartLooping(self) ==
    IF _should_loop(self) /\ frame[self].part_in_song + 1 >= Len(cfg[self].STRUCTURE)
    THEN 0 ELSE frame[self].part_in_song + 1

\* line 277: part_in_song += 1
NextPart(self) == frame[self].part_in_song + 1

\* the end test is off by one
StructureExhaustedLate(part_in_song, structure) == part_in_song > Len(structure)

\* line 279: part_in_song >= len(self.STRUCTURE)
StructureExhausted(part_in_song, structure) == part_in_song >= Len(structure)

\* every tick is taken for the start of a part
StartOfPartAlways(bars_played_for_part) == TRUE

\* line 281: start_of_part = bars_played_for_part == 0
StartOfPart(bars_played_for_part) == bars_played_for_part = 0

\* lines 267-301: tick time, part advance, end of structure, bookkeeping
Book(self) ==
    /\ pc[self] = "book"
    /\ LET f == frame[self]
           structure == cfg[self].STRUCTURE
           tt == f.captured_total_time
           td == tt - f.last_tick_time
           over == PartOver(f.bars_played_for_part, f.part_duration)
           p == IF over THEN NextPart(self) ELSE f.part_in_song
           b == IF over THEN 0 ELSE f.bars_played_for_part
           f1 == [f EXCEPT !.tick_time = tt, !.tick_duration = td,
                           !.part_in_song = p, !.bars_played_for_part = b]
           h1 == [hist[self] EXCEPT !.advances =
                     IF over THEN Append(@, hist[self].ticks) ELSE @]
       IN
         IF StructureExhausted(p, structure)
         THEN /\ frame' = [frame EXCEPT ![self] = f1]
              /\ hist' = [hist EXCEPT ![self] = h1]
              /\ pc' = [pc EXCEPT ![self] = "exit"]
         ELSE IF p + 1 \notin DOMAIN structure
         THEN \* self.STRUCTURE[part_in_song] raises IndexError
              /\ frame' = [frame EXCEPT ![self] = f1]
              /\ hist' = [hist EXCEPT ![self] = [h1 EXCEPT !.part_read = Max(@, p)]]
              /\ pc' = [pc EXCEPT ![self] = "crashed"]
         ELSE /\ frame' = [frame EXCEPT ![self] =
                   [f1 EXCEPT !.start_of_part = StartOfPart(b),
                              !.part_duration = structure[p + 1].bars,
                              !.part = structure[p + 1],
                              !.response_start_time = tt,
                              !.capture_start_time = captor[self].start_time,
                              !.response_duration = structure[p + 1].bars * td,
                              !.last_tick_time = tt,
                              !.bars_played = @ + 1,
                              !.bars_played_for_part = b + 1]]
              /\ hist' = [hist EXCEPT ![self] =
                   [h1 EXCEPT !.part_read = Max(@, p),
                              !.boundaries = IF StartOfPart(b) THEN @ + 1 ELSE @,
                              !.hits = <<>>,
                              !.pushed = FALSE]]
              /\ pc' = [pc EXCEPT ![self] = IF StartOfPart(b) THEN "melody" ELSE "await"]
    /\ UNCHANGED <<end_call, mutate>>
    /\ UNCHANGED <<now, cfg, cacheRef, caches, stop_signal, panic, captor, player, stop_pc,
                   control>>

\* ---------------------------------------------------------------- cache or generate
\* _generate: the window is moved to capture-relative time, the generator's
\* answer is trimmed to it and moved back to absolute time
_generate(content, zero_time, response_start, response_end) ==
    LET start == response_start - zero_time
        end == response_end - zero_time
        response_sequence == [id |-> content, start |-> start, total |-> end]
    IN adjust_sequence_times(response_sequence, zero_time)

\* the generator's error is caught and the loop is left as by a break
GeneratorErrorCaught == "exit"

\* lines 309, 319, 329 stand in no try statement: the error of
\* generator.generate (line 212) leaves _generate and run()
GeneratorError == "crashed"

\* the cache is never believed
CacheHitNever(entry) == FALSE

\* if self.MELODY_CACHE[part.name]: (a CacheItem is always true, None is not)
CacheHit(entry) == entry # None

NextStep(track) ==
    IF track = "melody" THEN "bass" ELSE IF track = "bass" THEN "drums" ELSE "late_check"

\* lines 303-331, one track: pull the sequence and its anchor from the cache, or
\* generate one (taking lat clock units; ok: the generator returns) and store it
CacheLookupOrGenerate(self, gen_index, lat, ok) ==
    LET track == CacheTracks[gen_index + 1]
        f == frame[self]
        name == f.part.name
        entry == Cache(self, track)[name]
    IN
    /\ pc[self] = track
    /\ IF CacheHit(entry)
       THEN /\ lat = 0 /\ ok
            /\ frame' = [frame EXCEPT ![self] =
                 [f EXCEPT !.sequence[track] = entry.sequence,
                           !.response_start_time = entry.response_start_time]]
            /\ hist' = [hist EXCEPT ![self].hits = Append(@, track)]
            /\ pc' = [pc EXCEPT ![self] = NextStep(track)]
            /\ UNCHANGED <<now, caches>>
       ELSE IF gen_index >= cfg[self].sequence_generators
       THEN \* self._sequence_generators[gen_index] raises IndexError (line 207)
            /\ lat = 0 /\ ok
            /\ pc' = [pc EXCEPT ![self] = "crashed"]
            /\ UNCHANGED <<now, frame, caches, hist>>
       ELSE /\ now' = now + lat
            /\ hist' = [hist EXCEPT
                  ![self].generated = Append(@, <<track, name>>),
                  ![self].gens = Append(@, <<gen_index, _sequence_generator(self)>>)]
            /\ IF ok
               THEN LET content == <<self, track, name, Len(hist[self].generated) + 1>>
                        sequence == _generate(content, f.capture_start_time,
                                              f.response_start_time,
                                              f.response_start_time + f.response_duration)
                    IN /\ frame' = [frame EXCEPT ![self].sequence[track] = sequence]
                       /\ caches' = [caches EXCEPT ![cacheRef[self]][track][name] =
                                       CacheItem(sequence, f.capture_start_time)]
                       /\ pc' = [pc EXCEPT ![self] = NextStep(track)]
               ELSE \* the generator's error leaves run()
                    /\ pc' = [pc EXCEPT ![self] = GeneratorError]
                    /\ UNCHANGED <<frame, caches>>
    /\ UNCHANGED <<end_call, mutate>>
    /\ UNCHANGED <<cfg, cacheRef, stop_signal, panic, captor, player, stop_pc, control>>

\* ---------------------------------------------------------------- latency compensation
\* (time() - response_start_time) >= tick_duration / 4
Late(elapsed, tick_duration) == 4 * elapsed >= tick_duration

\* the push stops at the tick that has already begun
PushTicksFloor(elapsed, tick_duration) == elapsed \div tick_duration

\* (time() - response_start_time) // tick_duration + 1
PushTicks(elapsed, tick_duration) == (elapsed \div tick_duration) + 1

\* lines 336-343: block chords of the part, moved to response_start_time
ChordSequence(self, part, response_start_time) ==
    [id |-> <<self, "chords", part.name, 0>>,
     start |-> response_start_time, total |-> response_start_time]

\* lines 333-346: the chord track is built and the clock is read for the lateness test
LateCheck(self) ==
    LET f == frame[self] IN
    /\ pc[self] = "late_check"
    /\ frame' = [frame EXCEPT ![self].sequence["chords"] =
                    ChordSequence(self, f.part, f.response_start_time)]
    /\ hist' = [hist EXCEPT ![self].rst0 = f.response_start_time, ![self].t_check = now]
    /\ IF f.tick_duration = 0 /\ now - f.response_start_time >= 0
       THEN pc' = [pc EXCEPT ![self] = "crashed"]       \* ZeroDivisionError at line 347
       ELSE pc' = [pc EXCEPT ![self] =
                     IF Late(now - f.response_start_time, f.tick_duration)
                     THEN "push" ELSE "dispatch"]
    /\ UNCHANGED <<end_call, mutate>>
    /\ UNCHANGED <<now, cfg, cacheRef, caches, stop_signal, panic, captor, player, stop_pc,
                   control>>

\* only the melody anchor follows the push
PushedAnchorMelodyOnly(self, track, response_start_time) ==
    IF track = "melody"
    THEN response_start_time
    ELSE Cache(self, track)[frame[self].part.name].response_start_time

\* the start is pushed twice over
PushedStartTwice(response_start_time, push_ticks, tick_duration) ==
    response_start_time + 2 * push_ticks * tick_duration

\* line 348: response_start_time += push_ticks * tick_duration
PushedStart(response_start_time, push_ticks, tick_duration) ==
    response_start_time + push_ticks * tick_duration

\* lines 353-355: the anchors of the part's three cache entries
PushedAnchor(self, track, response_start_time) == response_start_time

\* lines 347-356: the clock is read again (skew later), the response and the four
\* sequences are pushed by whole ticks, the anchors follow
Push(self, skew) ==
    LET f == frame[self]
        name == f.part.name
        t == now + skew
        ticks == PushTicks(t - f.response_start_time, f.tick_duration)
        delta == ticks * f.tick_duration
        rst == PushedStart(f.response_start_time, ticks, f.tick_duration)
        owner == cacheRef[self]
    IN
    /\ pc[self] = "push"
    /\ now' = t
    /\ frame' = [frame EXCEPT ![self] =
         [f EXCEPT !.push_ticks = ticks,
                   !.response_start_time = rst,
                   !.sequence = [k \in Tracks |-> adjust_sequence_times(f.sequence[k], delta)]]]
    /\ caches' = [caches EXCEPT ![owner] =
         [k \in DOMAIN caches[owner] |->
            [caches[owner][k] EXCEPT ![name].response_start_time =
                                        PushedAnchor(self, k, rst)]]]
    /\ hist' = [hist EXCEPT ![self].t_push = t, ![self].pushed = TRUE]
    /\ pc' = [pc EXCEPT ![self] = "dispatch"]
    /\ UNCHANGED <<end_call, mutate>>
    /\ UNCHANGED <<cfg, cacheRef, stop_signal, panic, captor, player, stop_pc, control>>

\* ---------------------------------------------------------------- playback
\* the chord track is started where the response was before the push
DispatchStartStaleChords(self, track) ==
    IF track = "chords" THEN hist[self].rst0 ELSE frame[self].response_start_time

\* start_time=response_start_time, for each of the four update_sequence calls
DispatchStart(self, track) == frame[self].response_start_time

\* lines 359-362
Dispatch(self) ==
    /\ pc[self] = "dispatch"
    /\ player' = [player EXCEPT ![self] =
         [t \in Tracks |-> update_sequence(player[self][t], frame[self].sequence[t],
                                           Some(DispatchStart(self, t)))]]
    /\ hist' = Bump(self, "dispatches")
    /\ pc' = [pc EXCEPT ![self] = "await"]
    /\ UNCHANGED <<end_call, mutate>>
    /\ UNCHANGED <<now, cfg, cacheRef, caches, stop_signal, panic, captor, frame, stop_pc,
                   control>>

\* the drum track is left running
ExitLeavesDrums(self) ==
    /\ pc[self] = "exit"
    /\ player' = [player EXCEPT ![self] =
                    [t \in Tracks |-> [player[self][t] EXCEPT !.stopped = (t # "drums")]]]
    /\ pc' = [pc EXCEPT ![self] = "done"]
    /\ UNCHANGED <<end_call, mutate>>
    /\ UNCHANGED <<now, cfg, cacheRef, caches, stop_signal, panic, captor, frame, stop_pc,
                   control, hist>>

\* lines 364-367
Exit(self) ==
    /\ pc[self] = "exit"
    /\ player' = [player EXCEPT ![self] =
                    [t \in Tracks |-> [player[self][t] EXCEPT !.stopped = TRUE]]]
    /\ pc' = [pc EXCEPT ![self] = "done"]
    /\ UNCHANGED <<end_call, mutate>>
    /\ UNCHANGED <<now, cfg, cacheRef, caches, stop_signal, panic, captor, frame, stop_pc,
                   control, hist>>

\* ---------------------------------------------------------------- the outside
\* _panic_callback, called by the captor once registered (lines 226-227)
PanicCallback(self) ==
    /\ captor[self] # None
    /\ ~captor[self].stopped
    /\ cfg[self].panic_signal # None
    /\ hist[self].signals < MaxPanics
    /\ panic' = [panic EXCEPT ![self] = TRUE]
    /\ hist' = [hist EXCEPT ![self].signals = @ + 1,
                            ![self].unserved = TRUE,
                            ![self].sets = IF panic[self] THEN @ ELSE @ + 1,
                            ![self].set_at = IF panic[self] THEN @ ELSE hist[self].ticks]
    /\ UNCHANGED <<end_call, mutate>>
    /\ UNCHANGED <<now, pc, cfg, cacheRef, caches, stop_signal, captor, frame, player,
                   stop_pc, control>>

\* the mutate signal also drops the cache entries of the current part
MutateCallbackClearing(self) ==
    /\ captor[self] # None
    /\ ~captor[self].stopped
    /\ cfg[self].mutate_signal # None
    /\ mutate' = [mutate EXCEPT ![self] = TRUE]
    /\ caches' = [caches EXCEPT ![cacheRef[self]] =
                    [t \in DOMAIN EmptyDicts |-> FreshDict(cfg[self].STRUCTURE)]]
    /\ UNCHANGED <<now, pc, cfg, cacheRef, stop_signal, panic, captor, frame, player,
                   stop_pc, control, end_call, hist>>

\* _mutate_callback, called by the captor once registered (lines 228-229)
MutateCallback(self) ==
    /\ captor[self] # None
    /\ ~captor[self].stopped
    /\ cfg[self].mutate_signal # None
    /\ mutate' = [mutate EXCEPT ![self] = TRUE]
    /\ UNCHANGED <<now, pc, cfg, cacheRef, caches, stop_signal, panic, captor, frame, player,
                   stop_pc, control, end_call, hist>>

\* _end_call_callback, called by the captor once registered (lines 224-225)
EndCallCallback(self) ==
    /\ captor[self] # None
    /\ ~captor[self].stopped
    /\ cfg[self].end_call_signal # None
    /\ end_call' = [end_call EXCEPT ![self] = TRUE]
    /\ UNCHANGED <<now, pc, cfg, cacheRef, caches, stop_signal, panic, captor, frame, player,
                   stop_pc, control, mutate, hist>>

\* the control surface sends a value for a control number
ControlChange(self, control_number, value) ==
    /\ pc[self] \notin {"unborn", "config_error"}
    /\ control[self][control_number] # Some(value)
    /\ control' = [control EXCEPT ![self][control_number] = Some(value)]
    /\ UNCHANGED <<end_call, mutate>>
    /\ UNCHANGED <<now, pc, cfg, cacheRef, caches, stop_signal, panic, captor, frame, player,
                   stop_pc, hist>>

\* stop(), line 189
StopSet(self) ==
    /\ stop_pc[self] = "idle"
    /\ pc[self] \notin {"unborn", "config_error", "constructed"}
    /\ stop_signal' = [stop_signal EXCEPT ![self] = TRUE]
    /\ stop_pc' = [stop_pc EXCEPT ![self] = "captor"]
    /\ UNCHANGED <<end_call, mutate>>
    /\ UNCHANGED <<now, pc, cfg, cacheRef, caches, panic, captor, frame, player, control, hist>>

\* stop(), lines 190-191: self._captor.stop(), stop_metronome()
StopCaptor(self) ==
    /\ stop_pc[self] = "captor"
    /\ IF captor[self] = None
       THEN /\ stop_pc' = [stop_pc EXCEPT ![self] = "failed"]   \* None has no stop()
            /\ UNCHANGED captor
       ELSE /\ stop_pc' = [stop_pc EXCEPT ![self] = "join"]
            /\ captor' = [captor EXCEPT ![self].stopped = TRUE]
    /\ UNCHANGED <<end_call, mutate>>
    /\ UNCHANGED <<now, pc, cfg, cacheRef, caches, stop_signal, panic, frame, player, control,
                   hist>>

\* stop(), line 192: MidiInteraction.stop() joins the thread
StopJoin(self) ==
    /\ stop_pc[self] = "join"
    /\ pc[self] \in {"done", "crashed"}
    /\ stop_pc' = [stop_pc EXCEPT ![self] = "returned"]
    /\ UNCHANGED <<end_call, mutate>>
    /\ UNCHANGED <<now, pc, cfg, cacheRef, caches, stop_signal, panic, captor, frame, player,
                   control, hist>>

\* ---------------------------------------------------------------- specifications
Run(self, latencies, skews) ==
    \/ Start(self)
    \/ RunBegin(self)
    \/ \E gap \in MinGap..MaxGap : Tick(self, gap)
    \/ Book(self)
    \/ \E gen_index \in 0..2, lat \in latencies, ok \in BOOLEAN :
          CacheLookupOrGenerate(self, gen_index, lat, ok)
    \/ LateCheck(self)
    \/ \E skew \in skews : Push(self, skew)
    \/ Dispatch(self)
    \/ Exit(self)

Loop(self) == Run(self, 0..MaxLatency, 0..MaxSkew)

\* stop() on its caller's thread, and the end of iterate() it brings about
Stop(self) ==
    \/ StopSet(self)
    \/ StopCaptor(self)
    \/ StopJoin(self)
    \/ IterateEnd(self)

\* one run over every structure at a fixed tick period, with stop() and the
\* loop control moving at any time
Next ==
    \/ \E structure \in Structures :
          Construct(1, structure, None, Some(MaxGap), None, Some(1), Len(CacheTracks), None, None, None)
    \/ Loop(1)
    \/ \E value \in {0, 127} : ControlChange(1, 1, value)
    \/ Stop(1)

Spec == Init /\ [][Next]_vars

\* structures of one or two parts, with and without a repeated part name
SmallStructures == {<<PartA>>, <<PartB>>, <<PartA, PartA>>, <<PartB, PartA>>}

\* one run with the panic signal registered or not, panic signals and stop()
\* arriving at any time
NextPanic ==
    \/ \E structure \in SmallStructures, panic_signal \in {None, Some(1)} :
          Construct(1, structure, None, Some(MaxGap), panic_signal, None,
                    Len(CacheTracks), None, None, None)
    \/ Loop(1)
    \/ PanicFlush(1)
    \/ PanicClear(1)
    \/ PanicCallback(1)
    \/ Stop(1)

SpecPanic == Init /\ [][NextPanic]_vars

\* one construction with every combination of clock_signal and tick_duration,
\* and the run that follows it
NextConfig ==
    \/ \E structure \in SmallStructures,
          clock_signal \in {None, Some(1)}, tick_duration \in {None, Some(MaxGap)} :
          Construct(1, structure, clock_signal, tick_duration, None, None,
                    Len(CacheTracks), None, None, None)
    \/ Loop(1)

SpecConfig == Init /\ [][NextConfig]_vars

\* two instances over the same part names, running one after the other or
\* together
NextTwo ==
    \E self \in Instances :
       \/ \E structure \in {<<PartA>>, <<PartA, PartA>>} :
             Construct(self, structure, None, Some(MaxGap), None, None,
                       Len(CacheTracks), None, None, None)
       \/ Run(self, {0}, {0})

SpecTwo == Init /\ [][NextTwo]_vars

\* one run with one, two or three generators configured, with or without a
\* generator-select control, whose value moves at any time
NextSelect ==
    \/ \E structure \in SmallStructures, sequence_generators \in 1..Len(CacheTracks),
          generator_select_control_number \in {None, Some(2)} :
          Construct(1, structure, None, Some(MaxGap), None, None,
                    sequence_generators, generator_select_control_number, None, None)
    \/ Run(1, {0}, {0})
    \/ \E value \in {1, 5} : ControlChange(1, 2, value)

SpecSelect == Init /\ [][NextSelect]_vars

\* everything but the end-call and mutate flags
loopvars == <<now, pc, cfg, cacheRef, caches, stop_signal, panic, captor, frame, player,
              stop_pc, control, hist>>

\* one run with the panic and mutate signals registered, the end-call signal
\* registered or not, panic signals and stop() arriving at any time, and no
\* end-call or mutate signal ever delivered
NextQuiet ==
    \/ \E structure \in SmallStructures, end_call_signal \in {None, Some(2)} :
          Construct(1, structure, None, Some(MaxGap), Some(1), None,
                    Len(CacheTracks), None, end_call_signal, Some(3))
    \/ Run(1, {0, MaxLatency}, {0})
    \/ PanicFlush(1)
    \/ PanicClear(1)
    \/ PanicCallback(1)
    \/ Stop(1)

\* the same run with end-call and mutate signals delivered at any time
NextSignals ==
    \/ NextQuiet
    \/ EndCallCallback(1)
    \/ MutateCallback(1)

SpecSignals == Init /\ [][NextSignals]_vars

\* ---------------------------------------------------------------- properties
Born(i) == pc[i] \notin {"unborn", "config_error"}
InRun(i) == pc[i] \notin {"unborn", "config_error", "constructed", "started"}
CurrentName(i) == frame[i].part.name
\* the state right after the four playback updates of a part-boundary tick
JustDispatched(i) == pc[i] = "await" /\ frame[i].start_of_part

NoDuplicates(seq) == \A j, k \in DOMAIN seq : j # k => seq[j] # seq[k]

\* C1: in one run the generator is invoked at most once per track and part name,
\* every later part-boundary tick of that part name plays the content stored at
\* the first one, and a stored sequence is never replaced, modified or deleted
C1_StoredOnce ==
    /\ NoDuplicates(hist[1].generated)
    /\ pc[1] \in {"late_check", "push", "dispatch"} =>
          \A t \in DOMAIN EmptyDicts :
             /\ Cache(1, t)[CurrentName(1)] # None
             /\ frame[1].sequence[t].id = Cache(1, t)[CurrentName(1)].sequence.id
             /\ frame[1].sequence[t].id[4] =
                   (CHOOSE k \in DOMAIN hist[1].generated :
                       hist[1].generated[k] = <<t, CurrentName(1)>>)
C1_StoredKept ==
    \A t \in DOMAIN EmptyDicts : \A n \in DOMAIN Cache(1, t) :
       Cache(1, t)[n] # None =>
          /\ n \in DOMAIN Cache(1, t)'
          /\ Cache(1, t)'[n] # None
          /\ Cache(1, t)'[n].sequence = Cache(1, t)[n].sequence
C1_CacheDeterminism == [](C1_StoredOnce) /\ [][C1_StoredKept]_vars
\* a repeated part has been pulled from the cache, with its anchor moved
C1_Witness ==
    /\ pc[1] = "dispatch"
    /\ frame[1].part_in_song = 2
    /\ Len(hist[1].generated) = 3
    /\ hist[1].pushed
    /\ Cache(1, "melody")["A"].response_start_time # frame[1].capture_start_time

\* C2: at every dispatch the four playback tracks are handed one and the same
\* start time, the response_start_time after the push of that tick, if any
C2_PhaseLock ==
    JustDispatched(1) =>
       /\ \A t \in Tracks : player[1][t].start_time = Some(frame[1].response_start_time)
       /\ frame[1].response_start_time =
             IF hist[1].pushed
             THEN hist[1].rst0 + frame[1].push_ticks * frame[1].tick_duration
             ELSE hist[1].rst0
C2_Witness ==
    /\ JustDispatched(1)
    /\ hist[1].pushed
    /\ frame[1].push_ticks = 2
    /\ player[1]["chords"].start_time = Some(hist[1].rst0 + 2 * frame[1].tick_duration)

\* C3: part_in_song never decreases, grows by at most 1 per tick, never exceeds
\* len(STRUCTURE), and the loop ends on the tick at which it gets there, without
\* reading STRUCTURE at that index
C3_Bounded ==
    Born(1) =>
       /\ frame[1].part_in_song \in 0..Len(cfg[1].STRUCTURE)
       /\ frame[1].part_in_song = Len(cfg[1].STRUCTURE) => pc[1] \in {"exit", "done"}
       /\ hist[1].part_read < Len(cfg[1].STRUCTURE)
       /\ frame[1].part_in_song = Len(hist[1].advances)
       /\ \A j, k \in DOMAIN hist[1].advances :
             j < k => hist[1].advances[j] < hist[1].advances[k]
C3_Step ==
    frame'[1].part_in_song \in {frame[1].part_in_song, frame[1].part_in_song + 1}
C3_PartAdvance == [](C3_Bounded) /\ [][C3_Step]_vars
C3_Witness ==
    /\ pc[1] = "done"
    /\ ~stop_signal[1]
    /\ Len(cfg[1].STRUCTURE) = 3
    /\ frame[1].part_in_song = 3
    /\ hist[1].part_read = 2

\* the ticks a run over the structure can take: every part is held for its
\* bars and one more tick, and one last tick ends the loop
TickBudget(structure) == StructureDuration(structure) + Len(structure) + 1

\* C4: the loop takes at most total_bars part-boundary ticks, one for each
\* structure index in turn and none for an index it has left, and it is over
\* after a bounded number of ticks, whatever the loop control reads
C4_TerminationBound ==
    InRun(1) =>
       /\ hist[1].boundaries <= frame[1].total_bars
       /\ hist[1].boundaries \in {frame[1].part_in_song, frame[1].part_in_song + 1}
       /\ hist[1].ticks <= TickBudget(cfg[1].STRUCTURE)
       /\ hist[1].ticks = TickBudget(cfg[1].STRUCTURE) => pc[1] # "await"
C4_Witness ==
    /\ pc[1] = "done"
    /\ stop_pc[1] = "idle"
    /\ _should_loop(1)
    /\ Len(cfg[1].STRUCTURE) = 3
    /\ hist[1].boundaries = 3
    /\ hist[1].ticks = TickBudget(cfg[1].STRUCTURE)

\* the loop is between receiving a tick and finishing its work, or waiting for one
InLoop(i) == pc[i] \in {"await", "panic_flush", "panic_clear", "book", "melody", "bass",
                        "drums", "late_check", "push", "dispatch"}

\* C5: every panic set by the callback while the loop runs is flushed exactly
\* once, on the next processed tick: whenever a delivered signal has not been
\* followed by a flush the flag is still set, a flush happens only with the
\* flag set, and flushes and flag settings stay paired one to one
C5_PanicServedOnce ==
    /\ InLoop(1) /\ hist[1].unserved => panic[1]
    /\ pc[1] = "panic_flush" => panic[1]
    /\ InLoop(1) =>
          hist[1].sets = hist[1].flushes +
                         (IF panic[1] /\ pc[1] # "panic_clear" THEN 1 ELSE 0)
    /\ pc[1] = "panic_clear" =>
          \A t \in Tracks : /\ player[1][t].sequence = EmptySequence
                            /\ player[1][t].start_time = None

\* C6: when a tick is received, bars_played_for_part is between 0 and the
\* duration in bars of the current part
C6_BarsWithinPart ==
    pc[1] = "book" =>
       /\ frame[1].part_duration = cfg[1].STRUCTURE[frame[1].part_in_song + 1].bars
       /\ frame[1].bars_played_for_part \in 0..frame[1].part_duration

\* C7: a part of D bars is the current part for exactly D ticks, so the k-th
\* part advance happens on the tick after the bars of the first k parts; with
\* the structure [A: 4 bars, B: 2 bars] part_in_song is 0 during the first 4
\* ticks and 1 once the 5th tick has been through the part advance
C7_PartHeldForItsBars ==
    InRun(1) =>
       /\ \A k \in DOMAIN hist[1].advances :
             hist[1].advances[k] = SumBars(cfg[1].STRUCTURE, k) + 1
       /\ cfg[1].STRUCTURE = ScenarioStructure =>
             /\ hist[1].ticks <= 4 => frame[1].part_in_song = 0
             /\ hist[1].ticks = 5 /\ pc[1] \in {"melody", "await"} =>
                   frame[1].part_in_song = 1

\* what latency compensation leaves behind when it pushed by n ticks
Pushed(i, n) ==
    LET f == frame[i]
        delta == n * f.tick_duration
    IN /\ f.push_ticks = n
       /\ f.response_start_time = hist[i].rst0 + delta
       /\ f.sequence["chords"].start = hist[i].rst0 + delta
       /\ \A t \in DOMAIN EmptyDicts :
             LET entry == Cache(i, t)[CurrentName(i)] IN
                /\ f.sequence[t].start = entry.sequence.start + delta
                /\ f.sequence[t].total = entry.sequence.total + delta
                /\ entry.response_start_time = f.response_start_time
\* and when it did not push
NotPushed(i) ==
    LET f == frame[i] IN
       /\ f.response_start_time = hist[i].rst0
       /\ f.sequence["chords"].start = hist[i].rst0
       /\ \A t \in DOMAIN EmptyDicts :
             f.sequence[t] = Cache(i, t)[CurrentName(i)].sequence

\* C8 as claimed: with the one elapsed of the lateness test, elapsed >=
\* tick_duration/4 pushes everything by floor(elapsed/tick_duration) + 1 ticks
C8_PushByTestedElapsed ==
    pc[1] = "dispatch" =>
       LET elapsed == hist[1].t_check - hist[1].rst0
           td == frame[1].tick_duration
       IN IF 4 * elapsed >= td
          THEN Pushed(1, (elapsed \div td) + 1)
          ELSE NotPushed(1)

\* C8, amended: elapsed >= tick_duration/4 at the lateness test pushes the
\* response, the four sequences and the three anchors by
\* floor(elapsed2/tick_duration) + 1 ticks, elapsed2 >= elapsed being measured
\* by a second clock read; below the threshold nothing moves
C8_AtDispatch ==
    pc[1] = "dispatch" =>
       LET elapsed == hist[1].t_check - hist[1].rst0
           elapsed2 == hist[1].t_push - hist[1].rst0
           td == frame[1].tick_duration
       IN IF 4 * elapsed >= td
          THEN /\ hist[1].pushed
               /\ elapsed2 >= elapsed
               /\ Pushed(1, (elapsed2 \div td) + 1)
          ELSE /\ ~hist[1].pushed
               /\ NotPushed(1)
C8_NothingMoves ==
    (\/ pc[1] = "late_check" /\ 4 * (now - frame[1].response_start_time) < frame[1].tick_duration
     \/ pc[1] = "dispatch" /\ ~hist[1].pushed)
    => /\ caches' = caches
       /\ frame'[1].response_start_time = frame[1].response_start_time
       /\ frame'[1].sequence = [frame[1].sequence EXCEPT !["chords"] = frame'[1].sequence["chords"]]
C8_LatencyPush == [](C8_AtDispatch) /\ [][C8_NothingMoves]_vars
\* the clock passed a tick boundary between the two reads
C8_Witness ==
    /\ pc[1] = "dispatch"
    /\ hist[1].pushed
    /\ (hist[1].t_push - hist[1].rst0) \div frame[1].tick_duration
          > (hist[1].t_check - hist[1].rst0) \div frame[1].tick_duration
    /\ frame[1].push_ticks = 2

\* C9: construction with both or neither of clock_signal and tick_duration
\* ends in the configuration error and nothing of a run ever exists for it;
\* with exactly one of them it does not
C9_Rejected(i) ==
    Cardinality({k \in {1, 2} : hist[i].ctor[k] = None}) \in {0, 2}
C9_State ==
    pc[1] # "unborn" =>
       /\ pc[1] = "config_error" <=> C9_Rejected(1)
       /\ pc[1] = "config_error" =>
             /\ captor[1] = None
             /\ hist[1].ticks = 0
             /\ \A t \in Tracks : ~player[1][t].started
C9_Stays == pc[1] = "config_error" => pc'[1] = "config_error"
C9_ConfigurationError == [](C9_State) /\ [][C9_Stays]_vars
C9_Witness ==
    /\ pc[1] = "config_error"
    /\ hist[1].ctor[1] # None
    /\ hist[1].ctor[2] # None

\* C10: two instances never share cache state: their caches are different
\* dicts, none is the class's, everything an instance finds in its caches was
\* generated by its own run, and only its own steps change them
C10_State ==
    /\ caches[ClassLevel] = EmptyDicts
    /\ \A i \in Instances : Born(i) =>
          /\ cacheRef[i] # ClassLevel
          /\ \A j \in Instances \ {i} : Born(j) => cacheRef[j] # cacheRef[i]
          /\ \A t \in DOMAIN EmptyDicts :
                /\ DOMAIN Cache(i, t) = Names(cfg[i].STRUCTURE)
                /\ \A n \in DOMAIN Cache(i, t) :
                      Cache(i, t)[n] # None => Cache(i, t)[n].sequence.id[1] = i
C10_Step ==
    \A i \in Instances :
       Born(i) /\ pc'[i] = pc[i] => caches'[cacheRef[i]] = caches[cacheRef[i]]
C10_PrivateCaches == [](C10_State) /\ [][C10_Step]_vars
\* both runs hold an entry for the same part name at the same time
C10_Witness ==
    /\ pc[1] = "dispatch"
    /\ pc[2] = "late_check"
    /\ Cache(1, "melody")["A"] # None
    /\ Cache(2, "melody")["A"] # None
    /\ Cache(1, "melody")["A"].response_start_time # Cache(2, "melody")["A"].response_start_time

\* C11: stop() issued once on a started loop never fails, whatever the loop
\* thread is doing at that moment: past its first line the stop flag is set,
\* past its second the capture has been told to halt, and it returns only
\* once the loop thread is over
C11_StopCompletes ==
    /\ stop_pc[1] # "failed"
    /\ stop_pc[1] # "idle" => stop_signal[1]
    /\ stop_pc[1] \in {"join", "returned"} => captor[1] # None /\ captor[1].stopped
    /\ stop_pc[1] = "returned" => pc[1] \in {"done", "crashed"}

\* C12: once the loop has left the for statement, through the stop flag seen at
\* the top of a tick or through the end of the structure, the four playback
\* tracks are stopped, and from the step that leaves the loop to the step that
\* stops them no track is given a sequence or a start time
C12_State ==
    pc[1] = "done" => \A t \in Tracks : player[1][t].stopped
C12_Step ==
    (pc'[1] = "exit" \/ pc[1] = "exit") =>
       \A t \in Tracks : /\ player'[1][t].sequence = player[1][t].sequence
                          /\ player'[1][t].start_time = player[1][t].start_time
C12_StoppedOnExit == [](C12_State) /\ [][C12_Step]_vars
\* the stop flag was seen at the top of a tick, in the middle of the structure,
\* while the capture was still running
C12_Witness ==
    /\ pc[1] = "done"
    /\ stop_signal[1]
    /\ ~captor[1].stopped
    /\ frame[1].part_in_song < Len(cfg[1].STRUCTURE)
    /\ hist[1].dispatches >= 1
    /\ \A t \in Tracks : /\ player[1][t].stopped
                          /\ player[1][t].sequence # EmptySequence

\* the run ended in a generator call that stored nothing
GenerationFailed(i) ==
    /\ pc[i] = "crashed"
    /\ hist[i].generated # <<>>
    /\ LET last == hist[i].generated[Len(hist[i].generated)]
       IN Cache(i, last[1])[last[2]] = None

\* C13: a generator call that fails at a part-boundary tick ends the loop at
\* that step: nothing is stored, no part is skipped, no further generator call
\* and no dispatch follow, and the four playback tracks keep what they were
\* last given and are not stopped
C13_State ==
    GenerationFailed(1) =>
       /\ frame[1].start_of_part
       /\ hist[1].dispatches = hist[1].boundaries - 1
       /\ \A t \in Tracks : player[1][t].started /\ ~player[1][t].stopped
C13_Step ==
    /\ LET calls == hist'[1].generated
           last == calls[Len(calls)]
       IN (/\ Len(calls) = Len(hist[1].generated) + 1
           /\ caches'[cacheRef'[1]][last[1]][last[2]] = None)
          => /\ pc'[1] = "crashed"
             /\ player' = player
             /\ caches' = caches
             /\ frame' = frame
    /\ pc[1] = "crashed" =>
          /\ pc'[1] = "crashed"
          /\ player' = player
          /\ caches' = caches
          /\ frame' = frame
          /\ hist'[1].generated = hist[1].generated
          /\ hist'[1].dispatches = hist[1].dispatches
C13_GenerationFailureIsFatal == [](C13_State) /\ [][C13_Step]_vars
\* the bass generator failed at the second part, after the first part was
\* dispatched and the melody of the second was stored
C13_Witness ==
    /\ GenerationFailed(1)
    /\ hist[1].generated[Len(hist[1].generated)] = <<"bass", "B">>
    /\ Cache(1, "melody")["B"] # None
    /\ hist[1].dispatches = 1
    /\ stop_pc[1] = "join"
    /\ \A t \in Tracks : player[1][t].sequence.id[3] = "A"

\* C14: at every dispatch the window of the melody, bass and drum sequence
\* handed to the player (the start of the window it was generated for, moved
\* by every shift of the dispatched copy) begins exactly at the start time
\* handed over with it, on the generate path and on the cache-hit path
C14_WindowAtStart ==
    JustDispatched(1) =>
       \A t \in DOMAIN EmptyDicts :
          player[1][t].sequence.start = player[1][t].start_time[1]

\* the steps of a part-boundary tick after its bookkeeping
AtBoundaryWork(i) == pc[i] \in {"melody", "bass", "drums", "late_check", "push", "dispatch"}

\* C15: a tick that is not the first of its part does bookkeeping only: the
\* cache lookups, generator calls, latency compensation and dispatch are done
\* only in a tick whose bars_played_for_part was 0 after the part advance; in
\* any other tick the caches, the players, the current part and the sequences
\* in hand stay as they are, apart from a panic flush of the players
C15_State ==
    AtBoundaryWork(1) =>
       /\ frame[1].start_of_part
       /\ frame[1].bars_played_for_part = 1
C15_Step ==
    /\ (pc[1] = "book" /\ pc'[1] = "await") =>
          /\ ~frame'[1].start_of_part
          /\ frame'[1].bars_played_for_part = frame[1].bars_played_for_part + 1
          /\ frame'[1].bars_played = frame[1].bars_played + 1
          /\ frame'[1].tick_time = frame[1].captured_total_time
          /\ frame'[1].last_tick_time = frame[1].captured_total_time
          /\ frame'[1].part_in_song = frame[1].part_in_song
          /\ frame'[1].part = frame[1].part
          /\ frame'[1].part_duration = frame[1].part_duration
          /\ frame'[1].sequence = frame[1].sequence
          /\ frame'[1].push_ticks = frame[1].push_ticks
          /\ caches' = caches
          /\ player' = player
          /\ hist'[1].generated = hist[1].generated
    /\ InLoop(1) /\ player' # player => pc[1] \in {"panic_flush", "dispatch"}
    /\ InLoop(1) /\ caches' # caches => pc[1] \in {"melody", "bass", "drums", "push"}
    /\ hist'[1].generated # hist[1].generated => pc[1] \in {"melody", "bass", "drums"}
C15_BookkeepingOnly == [](C15_State) /\ [][C15_Step]_vars
\* a tick in the middle of a part flushed the players after a panic signal and
\* did nothing else to them
C15_Witness ==
    /\ pc[1] = "await"
    /\ ~frame[1].start_of_part
    /\ frame[1].bars_played_for_part = 2
    /\ hist[1].dispatches = 1
    /\ hist[1].flushes = 1
    /\ Len(hist[1].generated) = 3
    /\ Cache(1, "melody")[CurrentName(1)] # None
    /\ \A t \in Tracks : player[1][t].sequence = EmptySequence

\* C16: the response_start_time that enters latency compensation is the tick
\* time when no track was pulled from the cache and otherwise the anchor of the
\* last track pulled, in the order melody, bass, drums; an entry is created
\* only on a miss, under the track and the name of the current part, with the
\* capture start time as its anchor
C16_State ==
    pc[1] = "late_check" =>
       LET hits == hist[1].hits IN
          /\ \A j, k \in DOMAIN hits : j < k =>
                \E a, b \in DOMAIN CacheTracks :
                   a < b /\ CacheTracks[a] = hits[j] /\ CacheTracks[b] = hits[k]
          /\ frame[1].response_start_time =
                IF hits = <<>>
                THEN frame[1].tick_time
                ELSE Cache(1, hits[Len(hits)])[CurrentName(1)].response_start_time
C16_Step ==
    Born(1) => \A t \in DOMAIN EmptyDicts : \A n \in Names(cfg[1].STRUCTURE) :
       (Cache(1, t)[n] = None /\ Cache(1, t)'[n] # None) =>
          /\ pc[1] = t
          /\ n = CurrentName(1)
          /\ t \notin {hist'[1].hits[k] : k \in DOMAIN hist'[1].hits}
          /\ Cache(1, t)'[n].response_start_time = captor[1].start_time
          /\ Cache(1, t)'[n].sequence = frame'[1].sequence[t]
          /\ caches' = [caches EXCEPT ![cacheRef[1]][t][n] = Cache(1, t)'[n]]
C16_AnchorEnteringCompensation == [](C16_State) /\ [][C16_Step]_vars
\* all three tracks were pulled from the cache and their anchor, moved by an
\* earlier push, is neither the tick time nor the capture start time
C16_Witness ==
    /\ pc[1] = "late_check"
    /\ hist[1].hits = CacheTracks
    /\ frame[1].response_start_time = Cache(1, "drums")[CurrentName(1)].response_start_time
    /\ frame[1].response_start_time # frame[1].tick_time
    /\ frame[1].response_start_time # frame[1].capture_start_time

\* C17: every generator the loop invokes for a melody, bass or drum request
\* is the one _sequence_generator selects at that moment: the only generator
\* when one is configured, otherwise the one at index (value of the
\* generator-select control, or 0 without one) mod the number of generators
C17_SelectedGenerator ==
    \A k \in DOMAIN hist[1].gens : hist[1].gens[k][1] = hist[1].gens[k][2]

\* C18: an end-call or mutate signal sets its own flag and nothing else, no
\* step ever clears either flag, and whatever signals arrive, the run is, in
\* everything but the two flags (part advances, caches, generator calls,
\* playback updates, termination), a run of the loop that receives the same
\* ticks and panic signals and no end-call or mutate signal at all
C18_FlagsOnly ==
    /\ end_call[1] => end_call'[1]
    /\ mutate[1] => mutate'[1]
    /\ (end_call' # end_call \/ mutate' # mutate) =>
          /\ UNCHANGED loopvars
          /\ end_call' = end_call \/ mutate' = mutate
C18_SignalsWithoutEffect == [][C18_FlagsOnly]_vars /\ [][NextQuiet]_loopvars
\* both flags were set when the second encounter of a part pulled its three
\* sequences from the cache
C18_Witness ==
    /\ pc[1] = "dispatch"
    /\ end_call[1]
    /\ mutate[1]
    /\ hist[1].hits = CacheTracks
    /\ hist[1].flushes = 1
    /\ Len(hist[1].generated) = 3

\* C19: whenever the loop waits for a tick (no generator call has failed, or
\* the run would be over), every part name has its melody, bass and drum
\* entries all absent or all present, and when present their anchors are equal
C19_EntriesTogether ==
    pc[1] = "await" =>
       \A n \in Names(cfg[1].STRUCTURE) :
          \/ \A t \in DOMAIN EmptyDicts : Cache(1, t)[n] = None
          \/ /\ \A t \in DOMAIN EmptyDicts : Cache(1, t)[n] # None
             /\ \A t, u \in DOMAIN EmptyDicts :
                   Cache(1, t)[n].response_start_time = Cache(1, u)[n].response_start_time
\* the entries of A are there, with an anchor moved by a push, those of B not
C19_Witness ==
    /\ pc[1] = "await"
    /\ hist[1].pushed
    /\ Names(cfg[1].STRUCTURE) = {"A", "B"}
    /\ \A t \in DOMAIN EmptyDicts :
          /\ Cache(1, t)["A"] # None
          /\ Cache(1, t)["A"].response_start_time > frame[1].tick_time
          /\ Cache(1, t)["B"] = None

\* C20: a push with tick_duration > 0 is by at least one tick, and the pushed
\* response_start_time lies after the clock value read to compute push_ticks
\* (the second read, taken after the lateness test) and at most one
\* tick_duration after it
C20_PushLandsWithinATick ==
    (pc[1] = "dispatch" /\ hist[1].pushed /\ frame[1].tick_duration > 0) =>
       /\ frame[1].push_ticks >= 1
       /\ frame[1].response_start_time > hist[1].t_push
       /\ frame[1].response_start_time <= hist[1].t_push + frame[1].tick_duration
\* the clock moved between the two reads, onto a tick boundary: the response
\* is pushed one whole tick past the second read
C20_Witness ==
    /\ pc[1] = "dispatch"
    /\ hist[1].pushed
    /\ frame[1].tick_duration > 0
    /\ hist[1].t_push > hist[1].t_check
    /\ frame[1].response_start_time = hist[1].t_push + frame[1].tick_duration

====
